---- MODULE Spec2Model ----
(***************************************************************************)
(* Invoice extraction service: the submission/polling API (app/api.py),    *)
(* the polling worker (app/worker.py) and the result schema                *)
(* (app/schema.py), over one shared Redis task store.                      *)
(*                                                                         *)
(* Conventions of the model                                                *)
(*  - a Python dict read from / written to the store (a task record) is a  *)
(*    TLA+ record with one field per key the program uses plus "keys",     *)
(*    the set of keys the dict holds; a field whose key is absent holds    *)
(*    the value Python's dict.get would return (None);                     *)
(*  - Python's None is the empty sequence for the Optional fields result   *)
(*    (<<>> or <<dict>>) and error (<<>> or the pieces of the string),     *)
(*    and the empty string for the string fields;                          *)
(*  - raw file content is a sequence of bytes 0..255, its base64 text a    *)
(*    sequence of alphabet indices 0..63 with 64 for the '=' padding,      *)
(*    a decoded text a sequence of Unicode code points;                    *)
(*  - a store call that raises has not been applied to the store.          *)
(***************************************************************************)
EXTENDS Integers, Sequences, FiniteSets, TLC

\* ------------------------------------------------------------------ bounds
\* number of task identifiers (uuid4 values) the API can hand out
MaxTasks == 2

\* ------------------------------------------------------------ input ranges
\* the uploads a client sends: (declared media type, raw bytes).  The text
\* files are: spaces only, ASCII text, invalid UTF-8 that is Latin-1 text,
\* invalid UTF-8 that is a Latin-1 no-break space, and UTF-8 encoded
\* whitespace (U+00A0); a PDF's bytes are opaque to the program (PyPDF2
\* parses them), so one PDF upload stands for all.
Uploads ==
    { [content_type |-> "image/png",       bytes |-> <<65>>],
      [content_type |-> "application/pdf", bytes |-> <<>>],
      [content_type |-> "text/plain",      bytes |-> <<>>],
      [content_type |-> "application/pdf", bytes |-> <<65, 65, 65>>],
      [content_type |-> "text/plain",      bytes |-> <<32, 32>>],
      [content_type |-> "text/plain",      bytes |-> <<65, 32>>],
      [content_type |-> "text/plain",      bytes |-> <<65, 194>>],
      [content_type |-> "text/plain",      bytes |-> <<160>>],
      [content_type |-> "text/plain",      bytes |-> <<194, 160>>] }

TaskIds == 1..MaxTasks

\* longest file content of the text decoding specification
MaxLen == 3

\* the bytes file contents are made of there: a space, a letter, UTF-8
\* continuation bytes (128, 160; 160 is also the Latin-1 no-break space),
\* the lead bytes of 2-, 3- and 4-byte sequences, and a byte that is never
\* valid in UTF-8
ByteAlphabet == {32, 65, 128, 160, 194, 224, 240, 255}

SeqsUpTo(S, n) == UNION {[1..k -> S] : k \in 0..n}

ByteStrings == SeqsUpTo(ByteAlphabet, MaxLen)

\* ------------------------------------------------------- Python's None
None == <<>>

\* ----------------------------------------------------------------- base64
\* index of '=' in the model's base64 alphabet
B64Pad == 64

\* base64.b64encode(file_content_bytes).decode('utf-8')  (api.py:89)
RECURSIVE b64encode(_)
b64encode(b) ==
    IF Len(b) = 0 THEN <<>>
    ELSE IF Len(b) = 1 THEN
        <<b[1] \div 4, (b[1] % 4) * 16, B64Pad, B64Pad>>
    ELSE IF Len(b) = 2 THEN
        <<b[1] \div 4, (b[1] % 4) * 16 + (b[2] \div 16), (b[2] % 16) * 4, B64Pad>>
    ELSE
        <<b[1] \div 4, (b[1] % 4) * 16 + (b[2] \div 16),
          (b[2] % 16) * 4 + (b[3] \div 64), b[3] % 64>>
        \o b64encode(SubSeq(b, 4, Len(b)))

\* base64.b64decode(file_content_b64)  (worker.py:175).  B64Valid: the text
\* is made of groups of four with padding only at the end of the last one
\* (b64decode raises binascii.Error otherwise); B64Bytes: the bytes of a
\* valid text.
RECURSIVE B64Valid(_)
B64Valid(s) ==
    IF Len(s) = 0 THEN TRUE
    ELSE IF Len(s) < 4 THEN FALSE
    ELSE IF s[1] = B64Pad \/ s[2] = B64Pad THEN FALSE
    ELSE IF s[3] = B64Pad THEN s[4] = B64Pad /\ Len(s) = 4
    ELSE IF s[4] = B64Pad THEN Len(s) = 4
    ELSE B64Valid(SubSeq(s, 5, Len(s)))

RECURSIVE B64Bytes(_)
B64Bytes(s) ==
    IF Len(s) = 0 THEN <<>>
    ELSE IF s[3] = B64Pad THEN <<s[1] * 4 + (s[2] \div 16)>>
    ELSE IF s[4] = B64Pad
    THEN <<s[1] * 4 + (s[2] \div 16), (s[2] % 16) * 16 + (s[3] \div 4)>>
    ELSE <<s[1] * 4 + (s[2] \div 16), (s[2] % 16) * 16 + (s[3] \div 4),
           (s[3] % 4) * 64 + s[4]>> \o B64Bytes(SubSeq(s, 5, Len(s)))

\* [ok, bytes]; ok = FALSE is binascii.Error
b64decode(s) ==
    IF B64Valid(s) THEN [ok |-> TRUE, bytes |-> B64Bytes(s)]
    ELSE [ok |-> FALSE, bytes |-> <<>>]

\* ------------------------------------------------------------ text decoding
IsCont(x) == x >= 128 /\ x <= 191

\* number of bytes of the UTF-8 sequence a byte starts, 0 when it starts none
Utf8Width(x) ==
    IF x < 128 THEN 1
    ELSE IF x >= 194 /\ x <= 223 THEN 2
    ELSE IF x >= 224 /\ x <= 239 THEN 3
    ELSE IF x >= 240 /\ x <= 244 THEN 4
    ELSE 0

\* the first character of b is a well-formed UTF-8 sequence
Utf8HeadOk(b) ==
    /\ Utf8Width(b[1]) > 0
    /\ Len(b) >= Utf8Width(b[1])
    /\ \A i \in 2..Utf8Width(b[1]) : IsCont(b[i])
    /\ (b[1] = 224) => b[2] >= 160
    /\ (b[1] = 237) => b[2] <= 159
    /\ (b[1] = 240) => b[2] >= 144
    /\ (b[1] = 244) => b[2] <= 143

\* the code point of the first character of b
Utf8Head(b) ==
    IF Utf8Width(b[1]) = 1 THEN b[1]
    ELSE IF Utf8Width(b[1]) = 2 THEN (b[1] - 192) * 64 + (b[2] - 128)
    ELSE IF Utf8Width(b[1]) = 3
    THEN (b[1] - 224) * 4096 + (b[2] - 128) * 64 + (b[3] - 128)
    ELSE (b[1] - 240) * 262144 + (b[2] - 128) * 4096 + (b[3] - 128) * 64 + (b[4] - 128)

RECURSIVE Utf8Valid(_)
Utf8Valid(b) ==
    IF Len(b) = 0 THEN TRUE
    ELSE Utf8HeadOk(b) /\ Utf8Valid(SubSeq(b, Utf8Width(b[1]) + 1, Len(b)))

RECURSIVE Utf8Text(_)
Utf8Text(b) ==
    IF Len(b) = 0 THEN <<>>
    ELSE <<Utf8Head(b)>> \o Utf8Text(SubSeq(b, Utf8Width(b[1]) + 1, Len(b)))

\* bytes.decode("utf-8"): [ok, text]; ok = FALSE is UnicodeDecodeError
utf8_decode(b) ==
    IF Utf8Valid(b) THEN [ok |-> TRUE, text |-> Utf8Text(b)]
    ELSE [ok |-> FALSE, text |-> <<>>]

\* bytes.decode("latin-1"): every byte is the code point of one character
latin1_decode(b) == [i \in 1..Len(b) |-> b[i]]

\* str.isspace() of one character
IsSpace(c) ==
    \/ c \in 9..13
    \/ c \in 28..32
    \/ c \in {133, 160, 5760, 8232, 8233, 8239, 8287, 12288}
    \/ c \in 8192..8202

\* str.strip()
RECURSIVE strip(_)
strip(t) ==
    IF Len(t) = 0 THEN t
    ELSE IF IsSpace(t[1]) THEN strip(SubSeq(t, 2, Len(t)))
    ELSE IF IsSpace(t[Len(t)]) THEN strip(SubSeq(t, 1, Len(t) - 1))
    ELSE t

\* ------------------------------------------------------------ text files
\* read_txt without lines 73-76: a UnicodeDecodeError reaches line 77
read_txt_NoFallback(bytes) ==
    IF utf8_decode(bytes).ok
    THEN [ok |-> TRUE, text |-> utf8_decode(bytes).text]
    ELSE [ok |-> FALSE, text |-> <<>>]

\* read_txt (worker.py:67-79): UTF-8, and Latin-1 when that fails.  Latin-1
\* decodes every byte string, so the outer handler (77-79) never runs.
read_txt(bytes) ==
    IF utf8_decode(bytes).ok
    THEN [ok |-> TRUE, text |-> utf8_decode(bytes).text]
    ELSE [ok |-> TRUE, text |-> latin1_decode(bytes)]

\* ------------------------------------------------------------------- PDFs
\* What PyPDF2 makes of an uploaded PDF: the container is accepted or not,
\* and each page yields a text (possibly empty) or raises in extract_text().
Page(raises, text) == [raises |-> raises, text |-> text]

PdfDocs ==
    { [ok |-> FALSE, pages |-> <<>>],
      [ok |-> TRUE,  pages |-> <<>>],
      [ok |-> TRUE,  pages |-> <<Page(FALSE, <<65>>)>>],
      [ok |-> TRUE,  pages |-> <<Page(FALSE, <<>>), Page(FALSE, <<65>>)>>],
      [ok |-> TRUE,  pages |-> <<Page(FALSE, <<32>>)>>],
      [ok |-> TRUE,  pages |-> <<Page(FALSE, <<65>>), Page(TRUE, <<>>)>>] }

\* the loop of read_pdf (worker.py:55-60) over the pages that are left
RECURSIVE PagesText(_)
PagesText(pages) ==
    IF Len(pages) = 0 THEN <<>>
    ELSE (IF Len(pages[1].text) > 0 THEN pages[1].text \o <<10>> ELSE <<>>)
         \o PagesText(Tail(pages))

\* read_pdf (worker.py:51-65): any exception of the reader or of a page is
\* re-raised as ValueError
read_pdf(doc) ==
    IF doc.ok /\ \A i \in 1..Len(doc.pages) : ~doc.pages[i].raises
    THEN [ok |-> TRUE, text |-> PagesText(doc.pages)]
    ELSE [ok |-> FALSE, text |-> <<>>]

\* ---------------------------------------------------------------- errors
\* An exception is <<type name, message, detail>>: str(e) is the message
\* followed by the detail, the text of an underlying exception that the
\* message embeds ("" when it embeds none).  The error string a record
\* stores, f"{type(e).__name__}: {str(e)}" (worker.py:231), is the same
\* triple.
Exc(type, msg, detail) == <<type, msg, detail>>

ErrMissingFields == Exc("ValueError", "Missing 'content_type' or 'file_content_b64' in task data.", "")
ErrBase64        == Exc("Error", "Incorrect padding", "")
ErrReadPdf       == Exc("ValueError", "Failed to read PDF content: ", "PdfReadError")
ErrUnsupported   == Exc("ValueError", "Unsupported content_type found in task data.", "")
ErrNoText        == Exc("ValueError", "No text could be extracted from the document.", "")
ErrNoClient      == Exc("ConnectionError", "LLM client not available", "")
ErrApi           == Exc("APIConnectionError", "Connection error.", "")
ErrInvalidJson   == Exc("ValueError", "LLM returned invalid JSON", "")
ErrValidation    == Exc("ValueError", "Schema validation failed: ", "ValidationError")
ErrRedis         == Exc("ConnectionError", "Error connecting to Redis.", "")

\* --------------------------------------------------------- task records
AllKeys == {"status", "original_filename", "content_type",
            "file_content_b64", "result", "error"}

\* task_data of submit_invoice_for_extraction (api.py:94-101)
NewTaskData(filename, content_type, b64) ==
    [keys              |-> AllKeys,
     status            |-> "PENDING",
     original_filename |-> filename,
     content_type      |-> content_type,
     file_content_b64  |-> b64,
     result            |-> None,
     error             |-> None]

\* task_data.pop("file_content_b64", None)
PopFileContent(d) ==
    [d EXCEPT !.keys = @ \ {"file_content_b64"}, !.file_content_b64 = None]

\* task_data.pop("content_type", None)
PopContentType(d) ==
    [d EXCEPT !.keys = @ \ {"content_type"}, !.content_type = ""]

\* json.dumps of a dict and json.loads of a stored string: the stored string
\* is a JSON document holding the dict, or some other text
json_dumps(d) == [valid |-> TRUE, obj |-> d]

\* json.loads that makes a dict of a damaged text too
json_loads_Lenient(s) == [ok |-> TRUE, obj |-> s.obj]

json_loads(s) == [ok |-> s.valid, obj |-> s.obj]

\* a dict of no keys (the value of a local that holds no task)
EmptyDict ==
    [keys |-> {}, status |-> "", original_filename |-> "", content_type |-> "",
     file_content_b64 |-> None, result |-> None, error |-> None]

\* d.get(k) of the string-valued keys: "" stands for None
Get(d, k) == IF k \in d.keys THEN d[k] ELSE ""

\* ----------------------------------------------------------------- schema
\* JSON values: null, a string, a number (written as Python writes the float)
JNull   == [t |-> "null", v |-> ""]
JStr(x) == [t |-> "str", v |-> x]
JNum(x) == [t |-> "num", v |-> x]

\* float(x) of the numbers and numeric strings the model's replies use
FloatOf == ("42" :> "42.0") @@ ("100" :> "100.0") @@ ("100.00" :> "100.0") @@ ("100.0" :> "100.0")

\* Optional[str] (schema.py:32): None and strings pass, a number does not
ValidateOptionalStr(x) ==
    IF x.t \in {"null", "str"} THEN [ok |-> TRUE, v |-> x] ELSE [ok |-> FALSE, v |-> JNull]

\* Optional[float] (schema.py:45): None and numbers pass, a string is
\* converted when it is numeric
ValidateOptionalFloat(x) ==
    IF x.t = "null" THEN [ok |-> TRUE, v |-> x]
    ELSE IF x.v \in DOMAIN FloatOf THEN [ok |-> TRUE, v |-> JNum(FloatOf[x.v])]
    ELSE [ok |-> FALSE, v |-> JNull]

\* d.get(k) of a JSON object: a field the reply leaves out defaults to None
Field(d, k) == IF k \in DOMAIN d THEN d[k] ELSE JNull

\* GeneralizedInvoiceData(**d).model_dump() (schema.py:30-53, worker.py:205-206)
\* for two of the schema's fields, invoice_number: Optional[str] and
\* total_amount: Optional[float]; keys the schema does not declare are
\* ignored.  [ok, value]; ok = FALSE is pydantic's ValidationError.
GeneralizedInvoiceData(d) ==
    LET n == ValidateOptionalStr(Field(d, "invoice_number"))
        a == ValidateOptionalFloat(Field(d, "total_amount"))
    IN  [ok    |-> n.ok /\ a.ok,
         value |-> [invoice_number |-> n.v, total_amount |-> a.v]]

\* ------------------------------------------------------- the external model
\* What one call of openai_client.chat.completions.create does: it raises,
\* or returns a message content that is not JSON, a JSON array, or a JSON
\* object.
Reply(kind, obj) == [kind |-> kind, obj |-> obj]
EmptyObject == [k \in {} |-> JNull]

LlmReplies ==
    { Reply("raises", EmptyObject),
      Reply("invalid", EmptyObject),
      Reply("array", EmptyObject),
      Reply("object", EmptyObject),
      Reply("object", ("invoice_number" :> JStr("42")) @@ ("total_amount" :> JNum("100"))),
      Reply("object", ("invoice_number" :> JStr("42")) @@ ("total_amount" :> JStr("100.00"))
                      @@ ("project_code" :> JStr("XYZ"))),
      Reply("object", ("total_amount" :> JStr("abc"))),
      Reply("object", ("invoice_number" :> JNum("42"))) }

\* extract_invoice_data_with_llm without lines 136-143: a reply that is not
\* JSON is handed on as the raw string
extract_invoice_data_with_llm_RawOnInvalid(client, reply) ==
    IF ~client
    THEN [ok |-> FALSE, calls |-> 0, exc |-> ErrNoClient,
          data |-> [isdict |-> FALSE, obj |-> EmptyObject]]
    ELSE IF reply.kind = "raises"
    THEN [ok |-> FALSE, calls |-> 1, exc |-> ErrApi,
          data |-> [isdict |-> FALSE, obj |-> EmptyObject]]
    ELSE [ok |-> TRUE, calls |-> 1, exc |-> None,
          data |-> [isdict |-> reply.kind = "object", obj |-> reply.obj]]

\* extract_invoice_data_with_llm that repeats a request that raised
extract_invoice_data_with_llm_Retry(client, reply) ==
    IF ~client
    THEN [ok |-> FALSE, calls |-> 0, exc |-> ErrNoClient,
          data |-> [isdict |-> FALSE, obj |-> EmptyObject]]
    ELSE IF reply.kind = "raises"
    THEN [ok |-> FALSE, calls |-> 2, exc |-> ErrApi,
          data |-> [isdict |-> FALSE, obj |-> EmptyObject]]
    ELSE IF reply.kind = "invalid"
    THEN [ok |-> FALSE, calls |-> 1, exc |-> ErrInvalidJson,
          data |-> [isdict |-> FALSE, obj |-> EmptyObject]]
    ELSE [ok |-> TRUE, calls |-> 1, exc |-> None,
          data |-> [isdict |-> reply.kind = "object", obj |-> reply.obj]]

\* extract_invoice_data_with_llm (worker.py:82-146): [ok, calls, data, exc].
\* calls is the number of outbound requests made (122-130); data is the
\* value json.loads returned: [isdict, obj].
extract_invoice_data_with_llm(client, reply) ==
    IF ~client
    THEN [ok |-> FALSE, calls |-> 0, exc |-> ErrNoClient,
          data |-> [isdict |-> FALSE, obj |-> EmptyObject]]
    ELSE IF reply.kind = "raises"
    THEN [ok |-> FALSE, calls |-> 1, exc |-> ErrApi,
          data |-> [isdict |-> FALSE, obj |-> EmptyObject]]
    ELSE IF reply.kind = "invalid"
    THEN [ok |-> FALSE, calls |-> 1, exc |-> ErrInvalidJson,
          data |-> [isdict |-> FALSE, obj |-> EmptyObject]]
    ELSE [ok |-> TRUE, calls |-> 1, exc |-> None,
          data |-> [isdict |-> reply.kind = "object", obj |-> reply.obj]]

\* Validate that goes on with the raw data when validation fails (the
\* alternative the comment at worker.py:209 mentions)
Validate_RawOnFailure(data) ==
    LET v == GeneralizedInvoiceData(data.obj)
    IN  IF data.isdict /\ v.ok
        THEN [ok |-> TRUE, result |-> <<v.value>>, exc |-> None]
        ELSE [ok |-> TRUE, result |-> <<data.obj>>, exc |-> None]

\* worker.py:202-213: validation of the model's data; a value that is not a
\* dict makes GeneralizedInvoiceData(**x) raise TypeError, caught like a
\* ValidationError.  [ok, result, exc]
Validate(data) ==
    LET v == GeneralizedInvoiceData(data.obj)
    IN  IF data.isdict /\ v.ok
        THEN [ok |-> TRUE, result |-> <<v.value>>, exc |-> None]
        ELSE [ok |-> FALSE, result |-> None, exc |-> ErrValidation]

\* ------------------------------------------------- process_task, the pieces
\* ProcessingUpdate without line 164 (the file content stays in the copy)
ProcessingUpdate_KeepContent(task_data) ==
    [task_data EXCEPT !.status = "PROCESSING", !.keys = @ \cup {"status"}]

\* ProcessingUpdate without line 160 (the status is left as it was read)
ProcessingUpdate_KeepStatus(task_data) == PopFileContent(task_data)

\* worker.py:160-164: the record written when the task is claimed
ProcessingUpdate(task_data) ==
    PopFileContent([task_data EXCEPT !.status = "PROCESSING",
                                     !.keys = @ \cup {"status"}])

\* ExtractText with line 191 testing only "not file_text"
ExtractText_NoStrip(task_data, doc) ==
    LET content_type == Get(task_data, "content_type")
        b64 == task_data.file_content_b64
        dec == b64decode(b64)
        Raise(e) == [ok |-> FALSE, text |-> <<>>, exc |-> e]
        Checked(t) == IF Len(t) = 0
                      THEN Raise(ErrNoText)
                      ELSE [ok |-> TRUE, text |-> t, exc |-> None]
    IN  IF content_type = "" \/ Len(b64) = 0 THEN Raise(ErrMissingFields)
        ELSE IF ~dec.ok THEN Raise(ErrBase64)
        ELSE IF content_type = "application/pdf"
        THEN IF read_pdf(doc).ok THEN Checked(read_pdf(doc).text) ELSE Raise(ErrReadPdf)
        ELSE IF content_type = "text/plain"
        THEN Checked(read_txt(dec.bytes).text)
        ELSE Raise(ErrUnsupported)

\* ExtractText without the test of lines 171-172 that reads a document of
\* any other media type as text
ExtractText_AnyType(task_data, doc) ==
    LET content_type == Get(task_data, "content_type")
        dec == b64decode(task_data.file_content_b64)
        Raise(e) == [ok |-> FALSE, text |-> <<>>, exc |-> e]
        Checked(t) == IF Len(t) = 0 \/ Len(strip(t)) = 0
                      THEN Raise(ErrNoText)
                      ELSE [ok |-> TRUE, text |-> t, exc |-> None]
    IN  IF ~dec.ok THEN Raise(ErrBase64)
        ELSE IF content_type = "application/pdf"
        THEN IF read_pdf(doc).ok THEN Checked(read_pdf(doc).text) ELSE Raise(ErrReadPdf)
        ELSE Checked(read_txt(dec.bytes).text)

\* worker.py:168-192: the text of the task's document; doc is what PyPDF2
\* makes of the bytes when they are read as a PDF.  [ok, text, exc]
ExtractText(task_data, doc) ==
    LET content_type == Get(task_data, "content_type")
        b64 == task_data.file_content_b64
        dec == b64decode(b64)
        Raise(e) == [ok |-> FALSE, text |-> <<>>, exc |-> e]
        Checked(t) == IF Len(t) = 0 \/ Len(strip(t)) = 0
                      THEN Raise(ErrNoText)
                      ELSE [ok |-> TRUE, text |-> t, exc |-> None]
    IN  IF content_type = "" \/ Len(b64) = 0 THEN Raise(ErrMissingFields)
        ELSE IF ~dec.ok THEN Raise(ErrBase64)
        ELSE IF content_type = "application/pdf"
        THEN IF read_pdf(doc).ok THEN Checked(read_pdf(doc).text) ELSE Raise(ErrReadPdf)
        ELSE IF content_type = "text/plain"
        THEN Checked(read_txt(dec.bytes).text)
        ELSE Raise(ErrUnsupported)

\* worker.py:216-220: the record written on success
CompletedData(task_data, validated_result) ==
    PopFileContent([task_data EXCEPT !.status = "COMPLETED",
                                     !.result = validated_result,
                                     !.error = None,
                                     !.keys = @ \cup {"status", "result", "error"}])

\* FailedData without line 232 (the result is not cleared)
FailedData_KeepResult(task_data, e) ==
    PopFileContent([task_data EXCEPT !.status = "FAILED",
                                     !.error = e,
                                     !.keys = @ \cup {"status", "result", "error"}])

\* worker.py:230-234: the record written on failure
FailedData(task_data, e) ==
    PopFileContent([task_data EXCEPT !.status = "FAILED",
                                     !.error = e,
                                     !.result = None,
                                     !.keys = @ \cup {"status", "result", "error"}])

\* IsPending that selects every task no worker is processing
IsPending_NotProcessing(task_data) ==
    "status" \in task_data.keys /\ task_data.status # "PROCESSING"

\* IsPending that compares with the wrong spelling
IsPending_Lowercase(task_data) ==
    "status" \in task_data.keys /\ task_data.status = "pending"

\* worker.py:260: the test that selects a task
IsPending(task_data) == "status" \in task_data.keys /\ task_data.status = "PENDING"

\* ------------------------------------------------------------------ state
Workers == {1, 2}

\* what a call to the store does: it returns, or raises
\* redis.exceptions.ConnectionError
StoreOutcomes == {"ok", "ConnectionError"}

\* what the ping of the reconnect handler (worker.py:281) does: it returns,
\* raises redis.exceptions.ConnectionError, or raises another exception of
\* the client (redis.exceptions.TimeoutError is a RedisError and not a
\* ConnectionError).  For the other store calls of the worker the class of
\* the exception decides only the text of the error and the length of the
\* sleep: keys/get go to line 277 or 285 and the loop goes on, set goes to
\* the handlers of process_task.
PingOutcomes == {"ok", "ConnectionError", "TimeoutError"}

VARIABLES
    store,            \* Redis: task id -> the JSON string stored under task:<id>
    issued,           \* number of task ids the API has generated
    openai_client,    \* worker.py:30-39: TRUE when the client is configured
    pc,               \* per worker: where main_loop / process_task stands
    task_keys,        \* per worker: the keys of the scan still to be looked at
    task_id,          \* per worker: id of the task in process_task (0: none)
    task_data,        \* per worker: the task's dict in the worker's memory
    file_text,        \* per worker: the extracted text
    validated_result, \* per worker: the validated result
    exc,              \* per worker: the exception the handler at 224 caught
    reader,           \* per worker: what PyPDF2 makes of the stream read_pdf holds
    llmCalls          \* task id -> number of requests sent to the model for it

vars == <<store, issued, openai_client, pc, task_keys,
          task_id, task_data, file_text, validated_result, exc, reader, llmCalls>>

workerVars == <<pc, task_keys, task_id, task_data, file_text, validated_result,
                exc, reader>>

Init ==
    /\ store = <<>>
    /\ issued = 0
    /\ openai_client \in BOOLEAN
    /\ pc = [w \in Workers |-> "scan"]
    /\ task_keys = [w \in Workers |-> <<>>]
    /\ task_id = [w \in Workers |-> 0]
    /\ task_data = [w \in Workers |-> EmptyDict]
    /\ file_text = [w \in Workers |-> <<>>]
    /\ validated_result = [w \in Workers |-> None]
    /\ exc = [w \in Workers |-> None]
    /\ reader = [w \in Workers |-> None]
    /\ llmCalls = [i \in TaskIds |-> 0]

\* redis_client.set(task_key, value)
StoreSet(id, value) ==
    IF id \in DOMAIN store THEN [store EXCEPT ![id] = value] ELSE store @@ (id :> value)

\* ------------------------------------------------------------------- API
SupportedTypes == {"application/pdf", "text/plain"}

\* SubmitCheck without the test of lines 82-86
SubmitCheck_NoEmptyTest(content_type, bytes) ==
    IF content_type \notin SupportedTypes THEN 415 ELSE 0

\* api.py:71-86: the status code a submission is rejected with, 0 when it
\* passes both checks
SubmitCheck(content_type, bytes) ==
    IF content_type \notin SupportedTypes THEN 415
    ELSE IF Len(bytes) = 0 THEN 400
    ELSE 0

\* submit_invoice_for_extraction (api.py:59-116): what it does to the store
\* and the status code it answers; o is what the store's set does (an
\* exception of the store answers 500).  id is the uuid4 of line 92.
SubmitEffect(u, o) ==
    LET rejected == SubmitCheck(u.content_type, u.bytes)
        id == issued + 1
        data == NewTaskData("invoice", u.content_type, b64encode(u.bytes))
    IN  IF rejected # 0 THEN [code |-> rejected, issued |-> issued, store |-> store]
        ELSE IF o = "ok"
        THEN [code |-> 202, issued |-> id, store |-> StoreSet(id, json_dumps(data))]
        ELSE [code |-> 500, issued |-> id, store |-> store]

\* a submission: the client receives the code, the store the record
submit_invoice_for_extraction(u, o) ==
    LET e == SubmitEffect(u, o)
    IN  /\ e.issued <= MaxTasks
        /\ store' = e.store
        /\ issued' = e.issued
        /\ UNCHANGED <<openai_client, llmCalls>>
        /\ UNCHANGED workerVars

\* class TaskStatus (api.py:41-44): the response model keeps the three
\* declared fields, result and error defaulting to None, and ignores every
\* other key; status is required.  [ok, body]
TaskStatusFields == {"status", "result", "error"}

\* TaskStatus as a model that keeps the keys it does not declare
TaskStatus_AllowExtra(d) ==
    [ok   |-> "status" \in d.keys,
     body |-> [d EXCEPT !.keys = @ \cup TaskStatusFields]]

TaskStatus(d) ==
    [ok   |-> "status" \in d.keys,
     body |-> [keys              |-> TaskStatusFields,
               status            |-> d.status,
               result            |-> IF "result" \in d.keys THEN d.result ELSE None,
               error             |-> IF "error" \in d.keys THEN d.error ELSE None,
               original_filename |-> "",
               content_type      |-> "",
               file_content_b64  |-> None]]

\* get_task_status that saves the record it stripped for the answer
PollEffect_WriteBack(st, id, o) ==
    IF o # "ok" THEN [code |-> 500, body |-> EmptyDict, store |-> st]
    ELSE IF id \notin DOMAIN st THEN [code |-> 404, body |-> EmptyDict, store |-> st]
    ELSE LET loaded == json_loads(st[id])
             popped == PopContentType(PopFileContent(loaded.obj))
             shown == TaskStatus(popped)
         IN  IF loaded.ok /\ shown.ok
             THEN [code |-> 200, body |-> shown.body,
                   store |-> [st EXCEPT ![id] = json_dumps(popped)]]
             ELSE [code |-> 500, body |-> EmptyDict, store |-> st]

\* get_task_status (api.py:123-149) on the store st: the code and body of
\* the answer and the store it leaves (the handler calls get only, and pops
\* the two keys from its own copy of the record)
PollEffect(st, id, o) ==
    IF o # "ok" THEN [code |-> 500, body |-> EmptyDict, store |-> st]
    ELSE IF id \notin DOMAIN st THEN [code |-> 404, body |-> EmptyDict, store |-> st]
    ELSE LET loaded == json_loads(st[id])
             shown == TaskStatus(PopContentType(PopFileContent(loaded.obj)))
         IN  IF loaded.ok /\ shown.ok
             THEN [code |-> 200, body |-> shown.body, store |-> st]
             ELSE [code |-> 500, body |-> EmptyDict, store |-> st]

\* the answer a poll of the current store receives
PollAnswer(id, o) ==
    [code |-> PollEffect(store, id, o).code, body |-> PollEffect(store, id, o).body]

\* a poll: the client receives PollAnswer(id, o)
get_task_status(id, o) ==
    /\ PollAnswer(id, o).code \in {200, 404, 500}
    /\ store' = PollEffect(store, id, o).store
    /\ UNCHANGED <<issued, openai_client, llmCalls>>
    /\ UNCHANGED workerVars

\* ----------------------------------------------------------------- worker
\* the orders in which redis_client.keys("task:*") can list a set of keys
RECURSIVE Orders(_)
Orders(S) ==
    IF S = {} THEN {<<>>}
    ELSE UNION {{<<x>> \o t : t \in Orders(S \ {x})} : x \in S}

Back(w) ==
    /\ task_keys' = [task_keys EXCEPT ![w] = <<>>]
    /\ task_id' = [task_id EXCEPT ![w] = 0]
    /\ task_data' = [task_data EXCEPT ![w] = EmptyDict]
    /\ file_text' = [file_text EXCEPT ![w] = <<>>]
    /\ validated_result' = [validated_result EXCEPT ![w] = None]
    /\ exc' = [exc EXCEPT ![w] = None]

\* main_loop, worker.py:249-254 and 277-279: a cycle starts by listing the keys
ListKeys(w, o) ==
    /\ pc[w] = "scan"
    /\ IF o = "ok"
       THEN /\ \E order \in Orders(DOMAIN store) :
                 task_keys' = [task_keys EXCEPT ![w] = order]
            /\ pc' = [pc EXCEPT ![w] = "get"]
       ELSE /\ pc' = [pc EXCEPT ![w] = "reconnect"]
            /\ UNCHANGED task_keys
    /\ UNCHANGED reader
    /\ UNCHANGED <<store, issued, openai_client, llmCalls, task_id, task_data,
                   file_text, validated_result, exc>>

\* main_loop, worker.py:255-275: one turn of the for loop, or its end.  At
\* the end without a task the worker goes to sleep (line 275).
ScanKey(w, o) ==
    /\ pc[w] = "get"
    /\ IF Len(task_keys[w]) = 0
       THEN /\ pc' = [pc EXCEPT ![w] = "sleep"]
            /\ UNCHANGED <<task_keys, task_id, task_data>>
       ELSE LET key == Head(task_keys[w])
                found == key \in DOMAIN store
                loaded == json_loads(store[key])
            IN  IF o # "ok"
                THEN /\ pc' = [pc EXCEPT ![w] = "reconnect"]
                     /\ task_keys' = [task_keys EXCEPT ![w] = <<>>]
                     /\ UNCHANGED <<task_id, task_data>>
                ELSE IF found /\ loaded.ok /\ IsPending(loaded.obj)
                THEN /\ pc' = [pc EXCEPT ![w] = "process"]
                     /\ task_keys' = [task_keys EXCEPT ![w] = <<>>]
                     /\ task_id' = [task_id EXCEPT ![w] = key]
                     /\ task_data' = [task_data EXCEPT ![w] = loaded.obj]
                ELSE /\ task_keys' = [task_keys EXCEPT ![w] = Tail(@)]
                     /\ UNCHANGED <<pc, task_id, task_data>>
    /\ UNCHANGED reader
    /\ UNCHANGED <<store, issued, openai_client, llmCalls, file_text,
                   validated_result, exc>>

\* main_loop, worker.py:273-275: time.sleep(WORKER_POLL_INTERVAL) returns
\* and the next cycle starts
Sleep(w) ==
    /\ pc[w] = "sleep"
    /\ pc' = [pc EXCEPT ![w] = "scan"]
    /\ UNCHANGED reader
    /\ UNCHANGED <<store, issued, openai_client, llmCalls, task_keys, task_id,
                   task_data, file_text, validated_result, exc>>

\* main_loop, worker.py:277-284: after a ConnectionError the worker sleeps and
\* pings; when the ping answers or raises ConnectionError the loop goes on.
\* Any other exception of the ping is raised inside the except clause of
\* line 277, where neither line 283 nor line 285 catches it: it leaves
\* main_loop and the process ends.
Reconnect(w, o) ==
    /\ pc[w] = "reconnect"
    /\ o \in PingOutcomes
    /\ pc' = [pc EXCEPT ![w] = IF o \in {"ok", "ConnectionError"}
                               THEN "scan" ELSE "exited"]
    /\ UNCHANGED reader
    /\ UNCHANGED <<store, issued, openai_client, llmCalls, task_keys, task_id,
                   task_data, file_text, validated_result, exc>>

\* process_task, worker.py:158-194: the PROCESSING write, then the text
Claim(w, o, doc) ==
    /\ pc[w] = "process"
    /\ \E claimed \in {[task_data[w] EXCEPT !.status = "PROCESSING",
                                              !.keys = @ \cup {"status"}]} :
       \E t \in {ExtractText(claimed, doc)} :
           /\ task_data' = [task_data EXCEPT ![w] = claimed]
           /\ IF o # "ok"
              THEN /\ store' = store
                   /\ exc' = [exc EXCEPT ![w] = ErrRedis]
                   /\ pc' = [pc EXCEPT ![w] = "fail"]
                   /\ UNCHANGED file_text
              ELSE /\ store' = StoreSet(task_id[w], json_dumps(ProcessingUpdate(task_data[w])))
                   /\ IF t.ok
                      THEN /\ file_text' = [file_text EXCEPT ![w] = t.text]
                           /\ pc' = [pc EXCEPT ![w] = "llm"]
                           /\ UNCHANGED exc
                      ELSE /\ exc' = [exc EXCEPT ![w] = t.exc]
                           /\ pc' = [pc EXCEPT ![w] = "fail"]
                           /\ UNCHANGED file_text
    /\ UNCHANGED reader
    /\ UNCHANGED <<issued, openai_client, llmCalls, task_keys, task_id, validated_result>>

\* process_task, worker.py:196-213: the model's reply and its validation
CallModel(w, reply) ==
    /\ pc[w] = "llm"
    /\ LET r == extract_invoice_data_with_llm(openai_client, reply)
           v == Validate(r.data)
       IN  /\ llmCalls' = [llmCalls EXCEPT ![task_id[w]] = @ + r.calls]
           /\ IF r.ok /\ v.ok
              THEN /\ validated_result' = [validated_result EXCEPT ![w] = v.result]
                   /\ pc' = [pc EXCEPT ![w] = "complete"]
                   /\ UNCHANGED exc
              ELSE /\ exc' = [exc EXCEPT ![w] = IF r.ok THEN v.exc ELSE r.exc]
                   /\ pc' = [pc EXCEPT ![w] = "fail"]
                   /\ UNCHANGED validated_result
    /\ UNCHANGED reader
    /\ UNCHANGED <<store, issued, openai_client, task_keys, task_id, task_data, file_text>>

\* process_task, worker.py:215-222: the COMPLETED write
Complete(w, o) ==
    /\ pc[w] = "complete"
    /\ LET done == CompletedData(task_data[w], validated_result[w])
       IN  IF o = "ok"
           THEN /\ store' = StoreSet(task_id[w], json_dumps(done))
                /\ pc' = [pc EXCEPT ![w] = "scan"]
                /\ Back(w)
           ELSE /\ store' = store
                /\ task_data' = [task_data EXCEPT ![w] = done]
                /\ exc' = [exc EXCEPT ![w] = ErrRedis]
                /\ pc' = [pc EXCEPT ![w] = "fail"]
                /\ UNCHANGED <<task_keys, task_id, file_text, validated_result>>
    /\ UNCHANGED reader
    /\ UNCHANGED <<issued, openai_client, llmCalls>>

\* process_task, worker.py:224-238: the FAILED write; an exception of the
\* write is logged and swallowed
Fail(w, o) ==
    /\ pc[w] = "fail"
    /\ store' = IF o = "ok"
                THEN StoreSet(task_id[w], json_dumps(FailedData(task_data[w], exc[w])))
                ELSE store
    /\ pc' = [pc EXCEPT ![w] = "scan"]
    /\ Back(w)
    /\ UNCHANGED reader
    /\ UNCHANGED <<issued, openai_client, llmCalls>>

\* one step of the try body of main_loop (worker.py:251-275), process_task
\* included
LoopBody(w, outcomes) ==
    \/ \E o \in outcomes : ListKeys(w, o)
    \/ \E o \in outcomes : ScanKey(w, o)
    \/ Sleep(w)
    \/ \E o \in outcomes, doc \in PdfDocs : Claim(w, o, doc)
    \/ \E reply \in LlmReplies : CallModel(w, reply)
    \/ \E o \in outcomes : Complete(w, o)
    \/ \E o \in outcomes : Fail(w, o)

\* one step of worker w: the loop body or the ConnectionError handler
Worker(w, outcomes) ==
    \/ LoopBody(w, outcomes)
    \/ \E o \in PingOutcomes : Reconnect(w, o)

Submit(outcomes) ==
    \E u \in Uploads, o \in outcomes : submit_invoice_for_extraction(u, o)

Poll(outcomes) ==
    \E id \in TaskIds, o \in outcomes : get_task_status(id, o)

\* ------------------------------------------------------------ specification
\* the documented deployment: the API and one worker; every store call may
\* fail
Next ==
    \/ Submit(StoreOutcomes)
    \/ Poll(StoreOutcomes)
    \/ Worker(1, StoreOutcomes)

Spec == Init /\ [][Next]_vars

\* the same with a store that answers every call, and a worker that keeps
\* running: no store call raises, so the ConnectionError handler
\* (worker.py:277-284) is never entered, and main_loop is a while True loop
\* of one process, so a step of the loop body that can be taken is taken
NextLive ==
    \/ Submit({"ok"})
    \/ Poll({"ok"})
    \/ LoopBody(1, {"ok"})

SpecLive == Init /\ [][NextLive]_vars /\ WF_vars(LoopBody(1, {"ok"}))

\* text decoding alone: worker 1 holds the stream of a text file of any
\* content (process_task, worker.py:175-176) and calls read_txt on it
\* (worker.py:184)
InitReadTxt ==
    /\ store = <<>>
    /\ issued = 0
    /\ openai_client = TRUE
    /\ pc = [w \in Workers |-> IF w = 1 THEN "read_txt" ELSE "scan"]
    /\ task_keys = [w \in Workers |-> <<>>]
    /\ task_id = [w \in Workers |-> 0]
    /\ \E bytes \in ByteStrings :
          task_data = [w \in Workers |->
                          IF w = 1
                          THEN NewTaskData("invoice", "text/plain", b64encode(bytes))
                          ELSE EmptyDict]
    /\ file_text = [w \in Workers |-> <<>>]
    /\ validated_result = [w \in Workers |-> None]
    /\ exc = [w \in Workers |-> None]
    /\ reader = [w \in Workers |-> None]
    /\ llmCalls = [i \in TaskIds |-> 0]

\* the bytes of the stream worker w holds
file_content_bytes(w) == b64decode(task_data[w].file_content_b64).bytes

ReadTxt(w) ==
    /\ pc[w] = "read_txt"
    /\ \E r \in {read_txt(file_content_bytes(w))} :
          IF r.ok
          THEN /\ file_text' = [file_text EXCEPT ![w] = r.text]
               /\ pc' = [pc EXCEPT ![w] = "read_txt_returned"]
               /\ UNCHANGED exc
          ELSE /\ exc' = [exc EXCEPT ![w] = Exc("ValueError", "Failed to read TXT content", "UnicodeDecodeError")]
               /\ pc' = [pc EXCEPT ![w] = "read_txt_raised"]
               /\ UNCHANGED file_text
    /\ UNCHANGED reader
    /\ UNCHANGED <<store, issued, openai_client, llmCalls, task_keys, task_id,
                   task_data, validated_result>>

NextReadTxt == ReadTxt(1)

SpecReadTxt == InitReadTxt /\ [][NextReadTxt]_vars

\* PDF reading alone: what a page of a PDF can be (it yields no text, a
\* text, or extract_text() raises on it) and what PdfReader can make of a
\* stream (it rejects the container, or gives up to MaxLen pages)
Pages == {Page(FALSE, <<>>), Page(FALSE, <<65>>), Page(FALSE, <<32>>), Page(TRUE, <<>>)}

PdfReaders ==
    {[ok |-> FALSE, pages |-> <<>>]}
      \cup {[ok |-> TRUE, pages |-> ps] : ps \in SeqsUpTo(Pages, MaxLen)}

\* worker 1 holds the stream of a PDF (process_task, worker.py:175-176) and
\* calls read_pdf on it (worker.py:182)
InitReadPdf ==
    /\ store = <<>>
    /\ issued = 0
    /\ openai_client = TRUE
    /\ pc = [w \in Workers |-> IF w = 1 THEN "read_pdf" ELSE "scan"]
    /\ task_keys = [w \in Workers |-> <<>>]
    /\ task_id = [w \in Workers |-> 0]
    /\ task_data = [w \in Workers |-> EmptyDict]
    /\ file_text = [w \in Workers |-> <<>>]
    /\ validated_result = [w \in Workers |-> None]
    /\ exc = [w \in Workers |-> None]
    /\ \E doc \in PdfReaders :
          reader = [w \in Workers |-> IF w = 1 THEN doc ELSE None]
    /\ llmCalls = [i \in TaskIds |-> 0]

ReadPdf(w) ==
    /\ pc[w] = "read_pdf"
    /\ \E r \in {read_pdf(reader[w])} :
          IF r.ok
          THEN /\ file_text' = [file_text EXCEPT ![w] = r.text]
               /\ pc' = [pc EXCEPT ![w] = "read_pdf_returned"]
               /\ UNCHANGED exc
          ELSE /\ exc' = [exc EXCEPT ![w] = ErrReadPdf]
               /\ pc' = [pc EXCEPT ![w] = "read_pdf_raised"]
               /\ UNCHANGED file_text
    /\ UNCHANGED <<store, issued, openai_client, llmCalls, task_keys, task_id,
                   task_data, validated_result, reader>>

NextReadPdf == ReadPdf(1)

SpecReadPdf == InitReadPdf /\ [][NextReadPdf]_vars

\* two workers started against the same store (the deployment the
\* documentation warns about), with a store that answers every call
NextTwo ==
    \/ Submit({"ok"})
    \/ Poll({"ok"})
    \/ LoopBody(1, {"ok"})
    \/ LoopBody(2, {"ok"})

SpecTwo == Init /\ [][NextTwo]_vars

\* the store's other clients.  Damage: the text stored under a key is
\* replaced by a text that is no JSON document (obj keeps the dict the text
\* held before, which json.loads does not return any more).  Delete: the
\* key is removed, so a get of it returns None (worker.py:256-257).
Damage(id) ==
    /\ id \in DOMAIN store /\ store[id].valid
    /\ store' = [store EXCEPT ![id].valid = FALSE]
    /\ UNCHANGED <<issued, openai_client, llmCalls>>
    /\ UNCHANGED workerVars

Delete(id) ==
    /\ id \in DOMAIN store
    /\ store' = [i \in DOMAIN store \ {id} |-> store[i]]
    /\ UNCHANGED <<issued, openai_client, llmCalls>>
    /\ UNCHANGED workerVars

\* one worker and a store that answers every call, whose records other
\* clients can damage or delete
NextScan ==
    \/ Submit({"ok"})
    \/ Poll({"ok"})
    \/ LoopBody(1, {"ok"})
    \/ \E id \in TaskIds : Damage(id)
    \/ \E id \in TaskIds : Delete(id)

SpecScan == Init /\ [][NextScan]_vars

\* PENDING records another client of the store has written: the content
\* type is missing, is empty or is one process_task does not read
\* (worker.py:181-187), the content is missing or is empty (worker.py:168-172)
PartialRecords ==
    LET full == NewTaskData("invoice", "text/plain", b64encode(<<65>>))
    IN  { PopContentType(full),
          [full EXCEPT !.content_type = ""],
          PopFileContent(full),
          [full EXCEPT !.file_content_b64 = <<>>],
          [full EXCEPT !.content_type = "image/png"] }

\* the record lacks what lines 168-187 of process_task need
IsPartial(d) ==
    \/ Get(d, "content_type") \notin {"application/pdf", "text/plain"}
    \/ "file_content_b64" \notin d.keys
    \/ Len(d.file_content_b64) = 0

\* another client stores such a record under a new key
PutPartial(rec) ==
    /\ issued < MaxTasks
    /\ issued' = issued + 1
    /\ store' = StoreSet(issued + 1, json_dumps(rec))
    /\ UNCHANGED <<openai_client, llmCalls>>
    /\ UNCHANGED workerVars

\* one worker and a store that answers every call, which holds records of
\* the API and records of other clients; the loop keeps running as in
\* SpecLive
NextPartial ==
    \/ Submit({"ok"})
    \/ \E rec \in PartialRecords : PutPartial(rec)
    \/ LoopBody(1, {"ok"})

SpecPartial == Init /\ [][NextPartial]_vars /\ WF_vars(LoopBody(1, {"ok"}))

\* ------------------------------------------------------------- properties
Rec(id) == store[id].obj
Terminal(status) == status \in {"COMPLETED", "FAILED"}

\* the worker is inside process_task for task id
InProcessTask(w, id) ==
    task_id[w] = id /\ pc[w] \in {"process", "llm", "complete", "fail"}

\* the status edges of the documented state machine
PathEdges ==
    { <<"PENDING", "PROCESSING">>, <<"PROCESSING", "COMPLETED">>,
      <<"PROCESSING", "FAILED">> }

C2_EventuallyTerminal ==
    \A id \in TaskIds :
        (id \in DOMAIN store) ~> (id \in DOMAIN store /\ Terminal(Rec(id).status))

C2_Witness ==
    /\ issued = MaxTasks
    /\ \A id \in TaskIds : id \in DOMAIN store /\ Terminal(Rec(id).status)

\* C3 (as claimed): whatever is raised while a claimed task is processed,
\* the record is written FAILED, so a record is PROCESSING only while the
\* worker is inside process_task for it.
C3_NoStrandedProcessing ==
    \A id \in DOMAIN store :
        Rec(id).status = "PROCESSING" => \E w \in Workers : InProcessTask(w, id)

\* C4: a stored record has a result iff it is COMPLETED and an error iff it
\* is FAILED.
C4_ResultIffCompleted ==
    \A id \in DOMAIN store :
        /\ (Rec(id).result # None) <=> (Rec(id).status = "COMPLETED")
        /\ (Rec(id).error # None) <=> (Rec(id).status = "FAILED")

\* a record failed after its COMPLETED write raised (its result had been
\* set in the worker's memory), next to a completed one
C4_Witness ==
    \E a, b \in DOMAIN store :
        /\ Rec(a).status = "COMPLETED" /\ Rec(a).result # None
        /\ Rec(b).status = "FAILED" /\ Rec(b).error = ErrRedis /\ llmCalls[b] = 1

\* C5: a record that is COMPLETED or FAILED is not written again.
C5_TerminalAbsorbing ==
    [][ \A id \in DOMAIN store :
            Terminal(Rec(id).status) => (id \in DOMAIN store' /\ store'[id] = store[id]) ]_vars

\* the worker's scan looks at a completed record
C5_Witness ==
    \E id \in DOMAIN store :
        /\ Rec(id).status = "COMPLETED"
        /\ pc[1] = "get" /\ Len(task_keys[1]) > 0 /\ Head(task_keys[1]) = id

\* C6: the body of a poll's answer holds the keys status, result and error
\* only, and neither the file content nor the media type.
C6_ProjectionHidesContent ==
    \A id \in DOMAIN store :
        LET a == PollAnswer(id, "ok")
        IN  a.code = 200 =>
                /\ a.body.keys = TaskStatusFields
                /\ a.body.file_content_b64 = None
                /\ a.body.content_type = ""
                /\ a.body.original_filename = ""

\* a pending record that holds the file and the media type is polled, next
\* to a terminal one
C6_Witness ==
    \E a, b \in DOMAIN store :
        /\ Rec(a).status = "PENDING"
        /\ Len(Rec(a).file_content_b64) > 0 /\ "content_type" \in Rec(a).keys
        /\ PollAnswer(a, "ok").code = 200
        /\ Terminal(Rec(b).status) /\ PollAnswer(b, "ok").code = 200

\* C7: a submission with an unsupported media type or no bytes is answered
\* 415 or 400 and leaves the store as it is.
C7_RejectedWritesNothing ==
    \A u \in Uploads, o \in StoreOutcomes :
        (u.content_type \notin {"application/pdf", "text/plain"} \/ Len(u.bytes) = 0)
            => /\ SubmitEffect(u, o).code \in {400, 415}
               /\ SubmitEffect(u, o).store = store
               /\ SubmitEffect(u, o).issued = issued

\* the store holds a record and another task id is free when an empty file
\* is rejected
C7_Witness ==
    /\ DOMAIN store # {}
    /\ issued < MaxTasks
    /\ \E u \in Uploads :
          /\ u.content_type = "text/plain" /\ Len(u.bytes) = 0
          /\ SubmitEffect(u, "ok").code = 400

\* C8 (as claimed): at most one record is PROCESSING.
C8_AtMostOneProcessing ==
    Cardinality({id \in DOMAIN store : Rec(id).status = "PROCESSING"}) <= 1

\* C9: the model is called at most once for a task.
C9_AtMostOneModelCall ==
    \A id \in TaskIds : llmCalls[id] <= 1

\* the worker's scan looks at a record whose extraction failed after the
\* model was called
C9_Witness ==
    \E id \in DOMAIN store :
        /\ Rec(id).status = "FAILED" /\ Rec(id).error = ErrInvalidJson
        /\ llmCalls[id] = 1
        /\ pc[1] = "get" /\ Len(task_keys[1]) > 0 /\ Head(task_keys[1]) = id

\* the task in the worker's memory is a plain-text file of whitespace only
WhitespaceText(d) ==
    /\ Get(d, "content_type") = "text/plain"
    /\ Len(d.file_content_b64) > 0
    /\ b64decode(d.file_content_b64).ok
    /\ \A i \in 1..Len(read_txt(b64decode(d.file_content_b64).bytes).text) :
          IsSpace(read_txt(b64decode(d.file_content_b64).bytes).text[i])

\* the worker writes a terminal status for the whitespace-only task it holds
WritesTerminal(w, id) ==
    /\ InProcessTask(w, id)
    /\ WhitespaceText(task_data[w])
    /\ id \in DOMAIN store /\ id \in DOMAIN store'
    /\ ~Terminal(Rec(id).status)
    /\ Terminal(store'[id].obj.status)

InvalidReplyStep(w) ==
    /\ openai_client
    /\ \E reply \in LlmReplies : reply.kind = "invalid" /\ CallModel(w, reply)

\* worker w writes the record of the task whose model reply was not JSON
InvalidReplyWrite(w) ==
    /\ pc[w] = "fail" /\ exc[w] = ErrInvalidJson
    /\ task_id[w] \in DOMAIN store
    /\ store'[task_id[w]] # store[task_id[w]]

C13_LoopNeverExits ==
    pc[1] # "exited"

\* C14: with two workers a task can be claimed and processed by both (the
\* witness) and by each of them at most once: the model is called at most
\* twice for one task.
C14_ProcessedOncePerWorker ==
    \A id \in TaskIds : llmCalls[id] <= Cardinality(Workers)

\* both workers read the record while it was PENDING and both called the
\* model for it; one has written it COMPLETED and the other is about to
\* write it again
C14_Witness ==
    \E id \in DOMAIN store :
        /\ llmCalls[id] = 2
        /\ Rec(id).status = "COMPLETED"
        /\ pc[1] = "scan"
        /\ task_id[2] = id /\ pc[2] \in {"complete", "fail"}

\* C15: read_txt of a non-empty content that is not valid UTF-8 does not
\* raise and returns the Latin-1 text: as many characters as bytes, each
\* character the code point of its byte.
C15_Latin1Fallback ==
    (/\ pc[1] \in {"read_txt_returned", "read_txt_raised"}
     /\ Len(file_content_bytes(1)) > 0
     /\ ~utf8_decode(file_content_bytes(1)).ok)
        => /\ pc[1] = "read_txt_returned"
           /\ Len(file_text[1]) = Len(file_content_bytes(1))
           /\ Len(file_text[1]) > 0
           /\ \A i \in 1..Len(file_text[1]) : file_text[1][i] = file_content_bytes(1)[i]

\* read_txt returned for a 3-byte sequence cut after its second byte
C15_Witness ==
    /\ pc[1] = "read_txt_returned"
    /\ file_content_bytes(1) = <<65, 224, 160>>
    /\ file_text[1] = <<65, 224, 160>>

\* C16 (as claimed): the error of a FAILED record, as stored and as a poll
\* returns it, embeds no text of an underlying exception (which is where
\* the model's offending output is quoted).
C16_NoRawDetail ==
    \A id \in DOMAIN store :
        Rec(id).status = "FAILED" =>
            /\ Rec(id).error[3] = ""
            /\ PollAnswer(id, "ok").body.error[3] = ""

\* the objects the schema accepts, validated
ValidatedObjects ==
    { GeneralizedInvoiceData(reply.obj).value :
          reply \in {r \in LlmReplies :
                         r.kind = "object" /\ GeneralizedInvoiceData(r.obj).ok} }

\* the model's reply to worker w parses and fails the schema validation
ValidationFailsStep(w) ==
    \E reply \in LlmReplies :
        /\ CallModel(w, reply)
        /\ extract_invoice_data_with_llm(openai_client, reply).ok
        /\ ~(reply.kind = "object" /\ GeneralizedInvoiceData(reply.obj).ok)

\* worker w writes record id COMPLETED
WritesCompleted(w, id) ==
    /\ task_id[w] = id
    /\ id \in DOMAIN store /\ Rec(id).status # "COMPLETED"
    /\ id \in DOMAIN store' /\ store'[id].obj.status = "COMPLETED"

C18_ContentOnlyWhilePending ==
    \A id \in DOMAIN store :
        IF Rec(id).status = "PENDING"
        THEN "file_content_b64" \in Rec(id).keys /\ Len(Rec(id).file_content_b64) > 0
        ELSE "file_content_b64" \notin Rec(id).keys /\ Rec(id).file_content_b64 = None

\* the stored record is PROCESSING without the content while the worker
\* still holds the content in its own copy
C18_Witness ==
    \E id \in DOMAIN store :
        /\ Rec(id).status = "PROCESSING" /\ "file_content_b64" \notin Rec(id).keys
        /\ InProcessTask(1, id) /\ pc[1] = "llm"
        /\ Len(task_data[1].file_content_b64) > 0

\* the get of a key returns nothing, or a text json.loads rejects
Unreadable(id) == id \notin DOMAIN store \/ ~store[id].valid

\* the step is one of worker w
WorkerStep(w) == pc'[w] # pc[w] \/ task_keys'[w] # task_keys[w]

\* the step changes what the store holds under id
StoreChangedAt(id) ==
    \/ (id \in DOMAIN store) # (id \in DOMAIN store')
    \/ id \in DOMAIN store /\ id \in DOMAIN store' /\ store'[id] # store[id]

\* C20: the worker's scan passes a key whose record is missing or does not
\* parse without writing anything and goes on with the keys that are left;
\* it claims the first readable PENDING record it comes to; and the worker
\* writes only the record of the task it has claimed.
C20_ScanSkipsUnreadable ==
    [][ WorkerStep(1) =>
          /\ (pc[1] = "get" /\ task_keys[1] # <<>> /\ Unreadable(Head(task_keys[1]))) =>
                /\ store' = store
                /\ pc'[1] = "get"
                /\ task_keys'[1] = Tail(task_keys[1])
          /\ (pc[1] = "get" /\ task_keys[1] # <<>> /\ ~Unreadable(Head(task_keys[1]))
                 /\ Rec(Head(task_keys[1])).status = "PENDING") =>
                /\ pc'[1] = "process"
                /\ task_id'[1] = Head(task_keys[1])
          /\ \A id \in TaskIds :
                StoreChangedAt(id) =>
                    task_id[1] = id /\ pc[1] \in {"process", "complete", "fail"} ]_vars

\* the scan has passed record 1, damaged while it was PENDING and never
\* claimed, and stands at record 2, which is PENDING: the enumeration that
\* lists 2 lists 1 as well, for 1 was stored first
C20_Witness ==
    /\ pc[1] = "get" /\ task_keys[1] = <<2>>
    /\ 1 \in DOMAIN store /\ ~store[1].valid /\ store[1].obj.status = "PENDING"
    /\ 2 \in DOMAIN store /\ store[2].valid /\ store[2].obj.status = "PENDING"

\* C19 (as claimed): process_task does not raise into the loop, and the
\* step that leaves its handler has written the record FAILED with the
\* error that was caught, whatever the error (the model client missing and
\* a connection error of the model included); the worker then scans again.
C19_EveryErrorBecomesFailed ==
    [][ /\ (pc[1] \in {"process", "llm", "complete", "fail"} /\ pc'[1] # pc[1]) =>
              pc'[1] \in {"llm", "complete", "fail", "scan"}
        /\ (pc[1] = "fail" /\ pc'[1] # "fail") =>
              /\ pc'[1] = "scan"
              /\ task_id[1] \in DOMAIN store'
              /\ store'[task_id[1]].obj.status = "FAILED"
              /\ store'[task_id[1]].obj.error = exc[1] ]_vars

\* C21: a cycle claims at most one task, the first key of the enumeration
\* whose record is read PENDING: the keys before it were passed because
\* their records were not PENDING, the claim ends the enumeration, a record
\* of another status is never claimed, and the worker goes to sleep exactly
\* when the enumeration ends without a claim.
C21_ClaimsFirstPending ==
    [][ WorkerStep(1) =>
          /\ (task_id'[1] # task_id[1] /\ task_id'[1] # 0) =>
                /\ pc[1] = "get" /\ task_keys[1] # <<>>
                /\ task_id'[1] = Head(task_keys[1])
                /\ Rec(task_id'[1]).status = "PENDING"
                /\ task_data'[1] = Rec(task_id'[1])
                /\ pc'[1] = "process" /\ task_keys'[1] = <<>>
          /\ (pc[1] = "get" /\ pc'[1] = "get") =>
                /\ task_keys[1] # <<>>
                /\ Rec(Head(task_keys[1])).status # "PENDING"
                /\ task_keys'[1] = Tail(task_keys[1])
                /\ task_id'[1] = 0
          /\ (pc'[1] = "process") =>
                (pc[1] = "get" /\ task_id'[1] # 0 /\ task_id[1] = 0)
          /\ (pc'[1] = "sleep") <=> (pc[1] = "get" /\ task_keys[1] = <<>>)
          /\ (pc[1] = "sleep") => (pc'[1] = "scan" /\ store' = store) ]_vars

\* the scan has passed record 1, which is COMPLETED, and stands at record 2,
\* which is PENDING: the enumeration that lists 2 lists 1 as well, for 1
\* was stored first
C21_Witness ==
    /\ pc[1] = "get" /\ task_keys[1] = <<2>>
    /\ DOMAIN store = {1, 2}
    /\ Rec(1).status = "COMPLETED" /\ Rec(2).status = "PENDING"

\* C22 (as claimed): when processing fails and the record of the task is no
\* longer in the store, the failure path leaves the store as it is.
C22_FailNoOpWhenGone ==
    [][ (pc[1] = "fail" /\ pc'[1] # "fail" /\ task_id[1] \notin DOMAIN store)
          => store' = store ]_vars

\* C23: a PENDING record whose content type or content is missing or empty,
\* or whose content type is not one the worker reads, is claimed and ends
\* FAILED with an error and no result, and no request for it has been sent
\* to the model.
C23_PartialRecordFails ==
    \A id \in TaskIds :
        (id \in DOMAIN store /\ IsPending(Rec(id)) /\ IsPartial(Rec(id)))
          ~> (/\ id \in DOMAIN store
              /\ Rec(id).status = "FAILED"
              /\ Rec(id).error # None /\ Rec(id).result = None
              /\ llmCalls[id] = 0)

\* a record without content and a record of an unsupported type have both
\* been written FAILED
C23_Witness ==
    /\ DOMAIN store = {1, 2}
    /\ Rec(1).status = "FAILED" /\ Rec(1).error = ErrMissingFields
    /\ Rec(2).status = "FAILED" /\ Rec(2).error = ErrUnsupported
    /\ llmCalls = [i \in TaskIds |-> 0]

\* the texts of the pages that yield a text, each followed by a newline,
\* in the order of the pages; a page that cannot be decoded yields none
RECURSIVE YieldedText(_)
YieldedText(pages) ==
    IF Len(pages) = 0 THEN <<>>
    ELSE IF pages[1].raises \/ Len(pages[1].text) = 0
    THEN YieldedText(Tail(pages))
    ELSE pages[1].text \o <<10>> \o YieldedText(Tail(pages))

\* C24 (as claimed): read_pdf of a container the decoder accepts returns the
\* texts of the pages that yield text, in the order of the pages, and
\* passes the pages that yield none; it raises only for a container the
\* decoder rejects, never for a page that cannot be decoded.
C24_FailsOnlyOnContainer ==
    /\ pc[1] = "read_pdf_returned" =>
          reader[1].ok /\ file_text[1] = YieldedText(reader[1].pages)
    /\ pc[1] = "read_pdf_raised" => ~reader[1].ok

\* C25: the model is called only for a task whose extracted text holds
\* more than whitespace: the worker reaches the model call only with such a
\* text, every request counted for a task is sent from there, and when the
\* worker leaves the failure handler of a task that yielded no text no
\* request has been sent for it.
C25_NoModelCallWithoutText ==
    [][ /\ \A id \in TaskIds :
              llmCalls'[id] # llmCalls[id] =>
                  /\ task_id[1] = id /\ pc[1] = "llm"
                  /\ Len(strip(file_text[1])) > 0
        /\ (pc'[1] = "llm" /\ pc[1] # "llm") =>
              (pc[1] = "process" /\ Len(strip(file_text'[1])) > 0)
        /\ (pc[1] = "fail" /\ exc[1] = ErrNoText /\ pc'[1] # "fail") =>
              llmCalls'[task_id[1]] = 0 ]_vars

\* a worker that has a client for the model is about to write FAILED for a
\* PDF that yielded no text
C25_Witness ==
    /\ openai_client
    /\ pc[1] = "fail" /\ exc[1] = ErrNoText
    /\ Get(task_data[1], "content_type") = "application/pdf"
    /\ llmCalls[task_id[1]] = 0
====
